---- MODULE Spec2Model ----
(***************************************************************************)
(* A model of the darksky client library (src/darksky.go): the request     *)
(* builder (MakeRequest, WithBaseURL, WithTime, WithLang, WithUnits), the  *)
(* URL rendering (ForecastRequest.URL), the request execution              *)
(* (ForecastRequest.Get) and DataPoint.WindDirection.                      *)
(*                                                                         *)
(* Go strings are modelled as sequences of one-character strings, so that  *)
(* formatting, escaping and parsing are computed character by character.   *)
(* Error messages and response bodies, which the code only copies, are     *)
(* TLA+ strings.                                                           *)
(***************************************************************************)
EXTENDS Integers, Sequences, FiniteSets, TLC

VARIABLES
    req,    \* the ForecastRequest the caller owns (the receiver f)
    op,     \* the operation that returned last
    ret,    \* what that operation returned
    exch,   \* the HTTP exchange the last Get went through
    dp      \* the DataPoint the caller holds

vars == <<req, op, ret, exch, dp>>

----------------------------------------------------------------------------
(* Strings.                                                                *)

\* The printable ASCII characters, code 32 (space) to 126 (~), in order. Code 96
\* (the grave accent), which a TLA+ string cannot hold, keeps its place.
ASCII ==
    <<" ", "!", "\"", "#", "$", "%", "&", "'", "(", ")", "*", "+", ",", "-", ".", "/",
      "0", "1", "2", "3", "4", "5", "6", "7", "8", "9", ":", ";", "<", "=", ">", "?",
      "@", "A", "B", "C", "D", "E", "F", "G", "H", "I", "J", "K", "L", "M", "N", "O",
      "P", "Q", "R", "S", "T", "U", "V", "W", "X", "Y", "Z", "[", "\\", "]", "^", "_",
      "(grave)", "a", "b", "c", "d", "e", "f", "g", "h", "i", "j", "k", "l", "m", "n", "o",
      "p", "q", "r", "s", "t", "u", "v", "w", "x", "y", "z", "{", "|", "}", "~">>

\* The byte value of each character.
ByteTable == [c \in {ASCII[i] : i \in 1..Len(ASCII)} |-> 31 + (CHOOSE i \in 1..Len(ASCII) : ASCII[i] = c)]
Byte(c) == ByteTable[c]

IsDigit(c) == Byte(c) >= 48 /\ Byte(c) <= 57
IsUpper(c) == Byte(c) >= 65 /\ Byte(c) <= 90
IsLower(c) == Byte(c) >= 97 /\ Byte(c) <= 122
IsLetter(c) == IsUpper(c) \/ IsLower(c)

HexDigits == <<"0", "1", "2", "3", "4", "5", "6", "7", "8", "9", "A", "B", "C", "D", "E", "F">>

RECURSIVE Cat(_)
\* The concatenation of a sequence of strings.
Cat(ss) == IF ss = <<>> THEN <<>> ELSE Head(ss) \o Cat(Tail(ss))

\* strings.Index for a single character: the first position of c in s, 0 if none.
IndexOf(s, c) ==
    IF \E i \in 1..Len(s) : s[i] = c
    THEN CHOOSE i \in 1..Len(s) : s[i] = c /\ \A j \in 1..(i - 1) : s[j] /= c
    ELSE 0

\* strings.LastIndex for a single character.
LastIndexOf(s, c) ==
    IF \E i \in 1..Len(s) : s[i] = c
    THEN CHOOSE i \in 1..Len(s) : s[i] = c /\ \A j \in (i + 1)..Len(s) : s[j] /= c
    ELSE 0

HasPrefix(s, p) == Len(s) >= Len(p) /\ SubSeq(s, 1, Len(p)) = p

Before(s, i) == SubSeq(s, 1, i - 1)
After(s, i) == SubSeq(s, i + 1, Len(s))

RECURSIVE Split(_, _)
\* strings.Split on a single character.
Split(s, c) ==
    LET i == IndexOf(s, c)
    IN  IF i = 0 THEN <<s>> ELSE <<Before(s, i)>> \o Split(After(s, i), c)

RECURSIVE LessStr(_, _)
\* Go's < on strings: bytewise lexicographic.
LessStr(a, b) ==
    IF b = <<>> THEN FALSE
    ELSE IF a = <<>> THEN TRUE
    ELSE IF Head(a) = Head(b) THEN LessStr(Tail(a), Tail(b))
    ELSE Byte(Head(a)) < Byte(Head(b))

----------------------------------------------------------------------------
(* Errors: Go's error interface values. NoError is nil.                    *)

NoError == [isNil |-> TRUE, msg |-> ""]
NewError(m) == [isNil |-> FALSE, msg |-> m]

----------------------------------------------------------------------------
(* Number formatting.                                                      *)

RECURSIVE FormatNat(_)
FormatNat(n) ==
    IF n < 10 THEN <<ASCII[17 + n]>>
    ELSE FormatNat(n \div 10) \o <<ASCII[17 + (n % 10)]>>

\* strconv.FormatInt(t, 10)
FormatInt(n) == IF n < 0 THEN <<"-">> \o FormatNat(-n) ELSE FormatNat(n)

\* A float64 coordinate is [neg, whole, frac]: sign, integer part and the decimal
\* digits of the fraction, without trailing zeros (the shortest representation that
\* %v prints). fmt's %v prints it as -ddd.ddd, with no point when frac is empty.
FormatFloat(x) ==
    (IF x.neg THEN <<"-">> ELSE <<>>)
    \o FormatNat(x.whole)
    \o (IF x.frac = <<>> THEN <<>> ELSE <<".">> \o [i \in 1..Len(x.frac) |-> ASCII[17 + x.frac[i]]])

----------------------------------------------------------------------------
(* net/url, as far as URL() uses it.                                       *)

\* url.shouldEscape for the two modes URL() reaches: "path" (encodePath, used by
\* URL.String for Path) and "query" (encodeQueryComponent, used by Values.Encode).
shouldEscape(c, mode) ==
    IF IsLetter(c) \/ IsDigit(c) THEN FALSE
    ELSE IF c \in {"-", "_", ".", "~"} THEN FALSE
    ELSE IF c \in {"$", "&", "+", ",", "/", ":", ";", "=", "?", "@"}
         THEN IF mode = "path" THEN c = "?" ELSE TRUE
    ELSE TRUE

\* One character of url.escape: %XX in upper-case hex, and + for a space in a
\* query component.
escapeChar(c, mode) ==
    IF ~shouldEscape(c, mode) THEN <<c>>
    ELSE IF c = " " /\ mode = "query" THEN <<"+">>
    ELSE <<"%", HexDigits[(Byte(c) \div 16) + 1], HexDigits[(Byte(c) % 16) + 1]>>

\* url.escape
escape(s, mode) == Cat([i \in 1..Len(s) |-> escapeChar(s[i], mode)])

\* url.QueryEscape
QueryEscape(s) == escape(s, "query")

\* A parsed url.URL. Userinfo and opaque URLs are outside the base URLs modelled.
EmptyURL == [Scheme |-> <<>>, Host |-> <<>>, Path |-> <<>>, RawQuery |-> <<>>, Fragment |-> <<>>]

RECURSIVE getScheme(_, _)
\* url.getScheme, scanning from position i: the scheme before the first colon, if
\* the characters before it can be a scheme; an error for a leading colon.
getScheme(raw, i) ==
    IF i > Len(raw) THEN [scheme |-> <<>>, rest |-> raw, err |-> NoError]
    ELSE IF IsLetter(raw[i]) THEN getScheme(raw, i + 1)
    ELSE IF IsDigit(raw[i]) \/ raw[i] \in {"+", "-", "."}
         THEN IF i = 1 THEN [scheme |-> <<>>, rest |-> raw, err |-> NoError]
              ELSE getScheme(raw, i + 1)
    ELSE IF raw[i] = ":"
         THEN IF i = 1 THEN [scheme |-> <<>>, rest |-> <<>>, err |-> NewError("missing protocol scheme")]
              ELSE [scheme |-> Before(raw, i), rest |-> After(raw, i), err |-> NoError]
    ELSE [scheme |-> <<>>, rest |-> raw, err |-> NoError]

\* url.validOptionalPort, on the host:port of an authority.
validOptionalPort(host) ==
    LET i == LastIndexOf(host, ":")
    IN  i = 0 \/ \A j \in (i + 1)..Len(host) : IsDigit(host[j])

\* strings.Cut on a single character: what is before the first c (all of s when
\* there is none) and what is after it.
CutBefore(s, c) == IF IndexOf(s, c) = 0 THEN s ELSE Before(s, IndexOf(s, c))
CutAfter(s, c) == IF IndexOf(s, c) = 0 THEN <<>> ELSE After(s, IndexOf(s, c))

ParseFailed(err) == [err |-> err, u |-> EmptyURL]

\* url.parseAuthority and setPath: the host is checked, the path kept.
parseHost(scheme, host, path, query, frag) ==
    IF ~validOptionalPort(host) THEN ParseFailed(NewError("invalid port after host"))
    ELSE [err |-> NoError,
          u |-> [Scheme |-> scheme, Host |-> host, Path |-> path, RawQuery |-> query,
                 Fragment |-> frag]]

\* The authority after // runs up to the next /, where the path starts.
parseAuthority(scheme, auth, query, frag) ==
    parseHost(scheme, CutBefore(auth, "/"),
              SubSeq(auth, Len(CutBefore(auth, "/")) + 1, Len(auth)), query, frag)

\* url.parse after the scheme and the query are cut off.
parseRest(scheme, rest, query, frag) ==
    IF HasPrefix(rest, <<"/", "/">>) THEN parseAuthority(scheme, After(rest, 2), query, frag)
    ELSE parseHost(scheme, <<>>, rest, query, frag)

parseScheme(s, frag) ==
    IF ~s.err.isNil THEN ParseFailed(s.err)
    ELSE parseRest(s.scheme, CutBefore(s.rest, "?"), CutAfter(s.rest, "?"), frag)

\* url.Parse for a reference without userinfo that is not opaque: the fragment is
\* cut at the first #, the scheme at its colon, the query at the first ?, the
\* authority after // up to the next /.
Parse(rawURL) == parseScheme(getScheme(CutBefore(rawURL, "#"), 1), CutAfter(rawURL, "#"))

\* url.Values is a map from key to the list of its values. It is modelled as the
\* sequence of (key, value) pairs in the order they were added; Encode groups them
\* by key.
Pair(k, v) == [key |-> k, value |-> v]

\* One key=value of url.ParseQuery (a key alone has the empty value).
parsePair(kv) ==
    LET e == IndexOf(kv, "=")
    IN  IF e = 0 THEN Pair(kv, <<>>) ELSE Pair(Before(kv, e), After(kv, e))

\* URL.Query(): url.ParseQuery of RawQuery, for a query without escapes.
Query(u) ==
    LET parts == SelectSeq(Split(u.RawQuery, "&"), LAMBDA kv : kv /= <<>>)
    IN  [i \in 1..Len(parts) |-> parsePair(parts[i])]

\* Values.Add
Add(v, key, value) == Append(v, Pair(key, value))

RECURSIVE SortKeys(_)
\* sort.Strings on the keys of the map.
SortKeys(ks) ==
    IF ks = {} THEN <<>>
    ELSE LET m == CHOOSE k \in ks : \A o \in ks \ {k} : LessStr(k, o)
         IN  <<m>> \o SortKeys(ks \ {m})

RECURSIVE Join(_, _)
\* strings.Join
Join(ss, sep) ==
    IF ss = <<>> THEN <<>>
    ELSE IF Len(ss) = 1 THEN ss[1]
    ELSE ss[1] \o sep \o Join(Tail(ss), sep)

\* The values Encode writes for one key: key=value, both sides escaped.
encodeKey(v, k) ==
    [i \in 1..Len(SelectSeq(v, LAMBDA p : p.key = k)) |->
        QueryEscape(k) \o <<"=">> \o QueryEscape(SelectSeq(v, LAMBDA p : p.key = k)[i].value)]

encodeKeys(v, keys) == Join(Cat([i \in 1..Len(keys) |-> encodeKey(v, keys[i])]), <<"&">>)

\* Values.Encode: key=value pairs, sorted by key, joined by &.
Encode(v) == encodeKeys(v, SortKeys({v[i].key : i \in 1..Len(v)}))

\* URL.String(): scheme://host, the escaped path, ?RawQuery, #fragment.
String(u) ==
    (IF u.Scheme /= <<>> THEN u.Scheme \o <<":">> ELSE <<>>)
    \o (IF (u.Scheme /= <<>> \/ u.Host /= <<>>) /\ (u.Host /= <<>> \/ u.Path /= <<>>)
        THEN <<"/", "/">> \o u.Host ELSE <<>>)
    \o (IF u.Path /= <<>> /\ u.Path[1] /= "/" /\ u.Host /= <<>> THEN <<"/">> ELSE <<>>)
    \o escape(u.Path, "path")
    \o (IF u.RawQuery /= <<>> THEN <<"?">> \o u.RawQuery ELSE <<>>)
    \o (IF u.Fragment /= <<>> THEN <<"#">> \o u.Fragment ELSE <<>>)

----------------------------------------------------------------------------
(* The request builder.                                                    *)

English == <<"e", "n">>
Spanish == <<"e", "s">>
US == <<"u", "s">>
SI == <<"s", "i">>

\* "https://api.darksky.net/forecast"
DefaultBaseURL ==
    <<"h", "t", "t", "p", "s", ":", "/", "/", "a", "p", "i", ".", "d", "a", "r", "k", "s",
      "k", "y", ".", "n", "e", "t", "/", "f", "o", "r", "e", "c", "a", "s", "t">>

\* The value MakeRequest gives Time.
UnsetTime == -1

MakeRequest(key, latitude, longitude) ==
    [Key |-> key, Lat |-> latitude, Lng |-> longitude, Time |-> UnsetTime,
     Lang |-> English, Units |-> US, ExtendHourly |-> FALSE, Exclude |-> <<>>,
     baseURL |-> DefaultBaseURL]

\* URLQuery with units taken from Lang (a copied line left unedited).
URLQuery_UnitsFromLang(f, reqURL) ==
    Add(Add(Query(reqURL), <<"l", "a", "n", "g">>, f.Lang), <<"u", "n", "i", "t", "s">>, f.Lang)

\* URLQuery that also sends ExtendHourly, as extend=hourly.
URLQuery_WithExtend(f, reqURL) ==
    IF f.ExtendHourly
    THEN Add(Add(Add(Query(reqURL), <<"l", "a", "n", "g">>, f.Lang), <<"u", "n", "i", "t", "s">>, f.Units),
             <<"e", "x", "t", "e", "n", "d">>, <<"h", "o", "u", "r", "l", "y">>)
    ELSE Add(Add(Query(reqURL), <<"l", "a", "n", "g">>, f.Lang), <<"u", "n", "i", "t", "s">>, f.Units)

\* The query URL() builds: the base URL's own parameters, then lang and units.
URLQuery(f, reqURL) == Add(Add(Query(reqURL), <<"l", "a", "n", "g">>, f.Lang), <<"u", "n", "i", "t", "s">>, f.Units)

\* fmt.Sprintf("%v/%v/%v,%v", reqURL.Path, f.Key, f.Lat, f.Lng)
URLPath(f, reqURL) ==
    Cat(<<reqURL.Path, <<"/">>, f.Key, <<"/">>, FormatFloat(f.Lat), <<",">>, FormatFloat(f.Lng)>>)

\* TimeSegment with the test on Time dropped: the time is always appended.
TimeSegment_Always(f) == <<",">> \o FormatInt(f.Time)

\* What URL() appends to the path for the time.
TimeSegment(f) == IF f.Time > 0 THEN <<",">> \o FormatInt(f.Time) ELSE <<>>

\* URL() once the base URL is parsed as p: the error, or the string of the URL with
\* its path and query replaced.
renderURL(f, p) ==
    IF ~p.err.isNil THEN [url |-> <<>>, err |-> p.err]
    ELSE [url |-> String([p.u EXCEPT !.Path = URLPath(f, p.u) \o TimeSegment(f),
                                     !.RawQuery = Encode(URLQuery(f, p.u))]),
          err |-> NoError]

\* ForecastRequest.URL: the pair (string, error) it returns.
URL(f) == renderURL(f, Parse(f.baseURL))

----------------------------------------------------------------------------
(* The forecast, the HTTP exchange and Get.                                *)

\* The fields of Forecast the bodies below fill; Latitude is kept as its JSON text.
ZeroForecast == [Latitude |-> "0", Timezone |-> "", Offset |-> 0, Alerts |-> <<>>]

ZeroResponse == [Forecast |-> ZeroForecast, APICallCount |-> 0, Error |-> NoError]

APICallsHeader == "X-Forecast-API-Calls"

\* Response bodies: empty, the plain-text error of the test server, an empty
\* object, a forecast with three alerts, and a forecast whose offset is a string.
BodyError == "A Server Error Occurred."
BodyEmptyObject == "{}"
BodyForecast == "{\"latitude\":41.8781,\"timezone\":\"America/Chicago\",\"offset\":-5,\"alerts\":[{\"title\":\"a\"},{\"title\":\"b\"},{\"title\":\"c\"}]}"
BodyBadOffset == "{\"latitude\":41.8781,\"timezone\":\"America/Chicago\",\"offset\":\"x\"}"
Bodies == {"", BodyError, BodyEmptyObject, BodyForecast, BodyBadOffset}

\* json.Unmarshal(jsonBlob, &f) on a zero Forecast f: the error and what f holds
\* afterwards. A type error leaves the fields decoded so far in f.
Unmarshal(jsonBlob) ==
    CASE jsonBlob = BodyEmptyObject -> [err |-> NoError, f |-> ZeroForecast]
      [] jsonBlob = BodyForecast ->
            [err |-> NoError,
             f |-> [Latitude |-> "41.8781", Timezone |-> "America/Chicago", Offset |-> -5,
                    Alerts |-> <<"a", "b", "c">>]]
      [] jsonBlob = BodyBadOffset ->
            [err |-> NewError("json: cannot unmarshal string into Go struct field Forecast.offset of type int"),
             f |-> [ZeroForecast EXCEPT !.Latitude = "41.8781", !.Timezone = "America/Chicago"]]
      [] jsonBlob = "" -> [err |-> NewError("unexpected end of JSON input"), f |-> ZeroForecast]
      [] OTHER -> [err |-> NewError("invalid character 'A' looking for beginning of value"),
                   f |-> ZeroForecast]

\* fromJSON: (nil, err) when the decoding fails, (&f, nil) otherwise.
fromJSON(jsonBlob) ==
    LET r == Unmarshal(jsonBlob)
    IN  IF ~r.err.isNil THEN [isNil |-> TRUE, forecast |-> ZeroForecast, err |-> r.err]
        ELSE [isNil |-> FALSE, forecast |-> r.f, err |-> NoError]

RECURSIVE digitsValue(_, _)
\* The loop of strconv.Atoi: n = n*10 + digit over the characters of s.
digitsValue(s, n) ==
    IF s = <<>> THEN n ELSE digitsValue(Tail(s), n * 10 + (Byte(Head(s)) - 48))

\* strconv.Atoi for a string of fewer than 19 characters (its fast path) and for the
\* empty string: an optional sign, then digits only, at least one.
Atoi(s) ==
    LET signed == s /= <<>> /\ s[1] \in {"-", "+"}
        digits == IF signed THEN Tail(s) ELSE s
    IN  IF digits = <<>> \/ \E i \in 1..Len(digits) : ~IsDigit(digits[i])
        THEN [n |-> 0, err |-> NewError("strconv.Atoi: invalid syntax")]
        ELSE [n |-> IF s[1] = "-" THEN -digitsValue(digits, 0) ELSE digitsValue(digits, 0),
              err |-> NoError]

\* http.Header.Get: the first value of the header, "" when there is none.
HeaderGet(header, name) ==
    LET i == IF \E j \in 1..Len(header) : header[j].key = name
             THEN CHOOSE j \in 1..Len(header) :
                      header[j].key = name /\ \A k \in 1..(j - 1) : header[k].key /= name
             ELSE 0
    IN  IF i = 0 THEN <<>> ELSE header[i].value

\* IsErrorStatus with > for >=.
IsErrorStatus_Above400(statusCode) == statusCode > 400

\* Whether Get treats the status as an API error.
IsErrorStatus(statusCode) == statusCode >= 400

\* CountStep that reports a header it cannot parse as the Response's error.
CountStep_FailsOnBadHeader(forecastResponse, header) ==
    IF Atoi(HeaderGet(header, APICallsHeader)).err.isNil
    THEN [forecastResponse EXCEPT !.APICallCount = Atoi(HeaderGet(header, APICallsHeader)).n]
    ELSE [forecastResponse EXCEPT !.Error = Atoi(HeaderGet(header, APICallsHeader)).err]

\* Get, the call-count step: the header's value, when it parses.
CountStep(forecastResponse, header) ==
    LET c == Atoi(HeaderGet(header, APICallsHeader))
    IN  IF c.err.isNil THEN [forecastResponse EXCEPT !.APICallCount = c.n]
        ELSE forecastResponse

\* DecodeStep that decodes straight into the Response's Forecast.
DecodeStep_IntoResponse(forecastResponse, body) ==
    [forecastResponse EXCEPT !.Forecast = Unmarshal(body).f, !.Error = Unmarshal(body).err]

\* Get, the decoding step: the error, or the decoded forecast.
DecodeStep(forecastResponse, body) ==
    LET d == fromJSON(body)
    IN  IF ~d.err.isNil THEN [forecastResponse EXCEPT !.Error = d.err]
        ELSE [forecastResponse EXCEPT !.Forecast = d.forecast]

\* What http.Get and ioutil.ReadAll gave: x.getErr, or a response with StatusCode
\* and Header whose body reads as x.Body with x.readErr.
NoExchange ==
    [sent |-> FALSE, url |-> <<>>, getErr |-> NoError, readErr |-> NoError,
     StatusCode |-> 0, Header |-> <<>>, Body |-> ""]

\* Get that looks at the status only after it has decoded the body.
Get_StatusCheckedLast(f, x) ==
    IF ~URL(f).err.isNil THEN [ZeroResponse EXCEPT !.Error = URL(f).err]
    ELSE IF ~x.getErr.isNil THEN [ZeroResponse EXCEPT !.Error = x.getErr]
    ELSE IF ~x.readErr.isNil THEN [ZeroResponse EXCEPT !.Error = x.readErr]
    ELSE IF IsErrorStatus(x.StatusCode)
         THEN [DecodeStep(CountStep(ZeroResponse, x.Header), x.Body) EXCEPT !.Error = NewError(x.Body)]
    ELSE DecodeStep(CountStep(ZeroResponse, x.Header), x.Body)

\* Get that reads the call-count header before it looks at the status.
Get_CountBeforeStatus(f, x) ==
    IF ~URL(f).err.isNil THEN [ZeroResponse EXCEPT !.Error = URL(f).err]
    ELSE IF ~x.getErr.isNil THEN [ZeroResponse EXCEPT !.Error = x.getErr]
    ELSE IF ~x.readErr.isNil THEN [ZeroResponse EXCEPT !.Error = x.readErr]
    ELSE IF IsErrorStatus(x.StatusCode)
         THEN [CountStep(ZeroResponse, x.Header) EXCEPT !.Error = NewError(x.Body)]
    ELSE DecodeStep(CountStep(ZeroResponse, x.Header), x.Body)

\* ForecastRequest.Get, given the outcome x of the exchange.
Get(f, x) ==
    IF ~URL(f).err.isNil THEN [ZeroResponse EXCEPT !.Error = URL(f).err]
    ELSE IF ~x.getErr.isNil THEN [ZeroResponse EXCEPT !.Error = x.getErr]
    ELSE IF ~x.readErr.isNil THEN [ZeroResponse EXCEPT !.Error = x.readErr]
    ELSE IF IsErrorStatus(x.StatusCode) THEN [ZeroResponse EXCEPT !.Error = NewError(x.Body)]
    ELSE DecodeStep(CountStep(ZeroResponse, x.Header), x.Body)

----------------------------------------------------------------------------
(* DataPoint.WindDirection.                                                *)

\* A float64 bearing is a whole number of degrees n, n + 1/2, or NaN.
Degrees(n) == [nan |-> FALSE, n |-> n, half |-> FALSE]
DegreesAndHalf(n) == [nan |-> FALSE, n |-> n, half |-> TRUE]
NaN == [nan |-> TRUE, n |-> 0, half |-> FALSE]

\* float64 comparison with a whole constant; every comparison with NaN is false.
Gt(b, k) == ~b.nan /\ (b.n > k \/ (b.n = k /\ b.half))
Lt(b, k) == ~b.nan /\ b.n < k

\* WindDirection with the lower threshold of S mistyped as 13.
WindDirection_SouthFrom13(d) ==
    (IF Gt(d.WindBearing, 293) \/ Lt(d.WindBearing, 67) THEN <<"N">> ELSE <<>>)
    \o (IF Lt(d.WindBearing, 247) /\ Gt(d.WindBearing, 13) THEN <<"S">> ELSE <<>>)
    \o (IF Gt(d.WindBearing, 22) /\ Lt(d.WindBearing, 157) THEN <<"E">> ELSE <<>>)
    \o (IF Lt(d.WindBearing, 337) /\ Gt(d.WindBearing, 203) THEN <<"W">> ELSE <<>>)

\* WindDirection with the upper threshold of N mistyped as 22, the lower one of E.
WindDirection_NorthBelow22(d) ==
    (IF Gt(d.WindBearing, 293) \/ Lt(d.WindBearing, 22) THEN <<"N">> ELSE <<>>)
    \o (IF Lt(d.WindBearing, 247) /\ Gt(d.WindBearing, 113) THEN <<"S">> ELSE <<>>)
    \o (IF Gt(d.WindBearing, 22) /\ Lt(d.WindBearing, 157) THEN <<"E">> ELSE <<>>)
    \o (IF Lt(d.WindBearing, 337) /\ Gt(d.WindBearing, 203) THEN <<"W">> ELSE <<>>)

WindDirection(d) ==
    (IF Gt(d.WindBearing, 293) \/ Lt(d.WindBearing, 67) THEN <<"N">> ELSE <<>>)
    \o (IF Lt(d.WindBearing, 247) /\ Gt(d.WindBearing, 113) THEN <<"S">> ELSE <<>>)
    \o (IF Gt(d.WindBearing, 22) /\ Lt(d.WindBearing, 157) THEN <<"E">> ELSE <<>>)
    \o (IF Lt(d.WindBearing, 337) /\ Gt(d.WindBearing, 203) THEN <<"W">> ELSE <<>>)

----------------------------------------------------------------------------
(* The inputs the callers and the network draw from.                       *)

Keys == {<<"f", "o", "o">>, <<"a", " ", "b">>}
Lats == {[neg |-> FALSE, whole |-> 41, frac |-> <<1, 2, 3, 4>>],
         [neg |-> TRUE, whole |-> 0, frac |-> <<5>>]}
Lngs == {[neg |-> TRUE, whole |-> 81, frac |-> <<1, 2, 3, 4>>],
         [neg |-> FALSE, whole |-> 7, frac |-> <<>>]}
Times == {UnsetTime, -86400, 0, 12345}
\* en, es, and a value that is no language code: "a&lang=b".
Langs == {English, Spanish, <<"a", "&", "l", "a", "n", "g", "=", "b">>}
UnitsSet == {US, SI}
Excludes == {<<>>, <<"hourly">>}

\* "http://h:80", a test server
TestBaseURL == <<"h", "t", "t", "p", ":", "/", "/", "h", ":", "8", "0">>
\* "http://h/p?lang=fr", a base URL that carries a query
QueryBaseURL ==
    <<"h", "t", "t", "p", ":", "/", "/", "h", "/", "p", "?", "l", "a", "n", "g", "=", "f", "r">>
\* "://h", which url.Parse rejects
BadBaseURL == <<":", "/", "/", "h">>
BaseURLs == {DefaultBaseURL, TestBaseURL, QueryBaseURL, BadBaseURL}

\* The longest X-Forecast-API-Calls value the network sends.
MaxHeaderLen == 2
HeaderChars == {"1", "7", "-", "x"}
RECURSIVE StringsUpTo(_)
StringsUpTo(n) ==
    IF n = 0 THEN {<<>>}
    ELSE LET shorter == StringsUpTo(n - 1)
         IN  shorter \cup {Append(t, c) : t \in shorter, c \in HeaderChars}
HeaderValues == StringsUpTo(MaxHeaderLen)

Headers ==
    {<<>>, <<Pair("Content-Type", <<"j", "s", "o", "n">>)>>}
    \cup {<<Pair(APICallsHeader, v)>> : v \in HeaderValues}
    \cup {<<Pair("Content-Type", <<"j", "s", "o", "n">>), Pair(APICallsHeader, <<"1">>),
            Pair(APICallsHeader, <<"7">>)>>}

StatusCodes == {200, 399, 400, 500}

\* The outcomes of http.Get and of reading the body.
Exchanges ==
    {[NoExchange EXCEPT !.sent = TRUE, !.getErr = NewError("dial tcp: connection refused")]}
    \cup {[NoExchange EXCEPT !.sent = TRUE, !.readErr = NewError("unexpected EOF"),
                             !.StatusCode = c, !.Header = h]
          : c \in {200, 500}, h \in {<<>>, <<Pair(APICallsHeader, <<"1">>)>>}}
    \cup {[NoExchange EXCEPT !.sent = TRUE, !.StatusCode = c, !.Header = h, !.Body = b]
          : c \in StatusCodes, h \in Headers, b \in Bodies}

\* The bearings: whole and half degrees from -MaxBearing to MaxBearing, and NaN.
MaxBearing == 400
Bearings ==
    {Degrees(n) : n \in -MaxBearing..MaxBearing}
    \cup {DegreesAndHalf(n) : n \in -MaxBearing..MaxBearing}
    \cup {NaN}

----------------------------------------------------------------------------
(* The state machine: one action per call the caller makes.                *)

\* What the last call returned; op says which field is meant.
NoRet == [url |-> <<>>, err |-> NoError, resp |-> ZeroResponse, dir |-> <<>>]

Init ==
    /\ req = MakeRequest(<<"f", "o", "o">>,
                         [neg |-> FALSE, whole |-> 41, frac |-> <<1, 2, 3, 4>>],
                         [neg |-> TRUE, whole |-> 81, frac |-> <<1, 2, 3, 4>>])
    /\ op = "MakeRequest"
    /\ ret = NoRet
    /\ exch = NoExchange
    /\ dp = [WindBearing |-> Degrees(0)]

\* The caller is not inside Get.
Idle == op /= "http.Get"

NewRequest(key, latitude, longitude) ==
    /\ Idle
    /\ req' = MakeRequest(key, latitude, longitude)
    /\ op' = "MakeRequest"
    /\ ret' = NoRet
    /\ UNCHANGED <<exch, dp>>

WithBaseURL(baseURL) ==
    /\ Idle
    /\ req' = [req EXCEPT !.baseURL = baseURL]
    /\ op' = "WithBaseURL"
    /\ ret' = NoRet
    /\ UNCHANGED <<exch, dp>>

WithTime(t) ==
    /\ Idle
    /\ req' = [req EXCEPT !.Time = t]
    /\ op' = "WithTime"
    /\ ret' = NoRet
    /\ UNCHANGED <<exch, dp>>

WithLang(l) ==
    /\ Idle
    /\ req' = [req EXCEPT !.Lang = l]
    /\ op' = "WithLang"
    /\ ret' = NoRet
    /\ UNCHANGED <<exch, dp>>

WithUnits(u) ==
    /\ Idle
    /\ req' = [req EXCEPT !.Units = u]
    /\ op' = "WithUnits"
    /\ ret' = NoRet
    /\ UNCHANGED <<exch, dp>>

\* The caller assigns the exported field ExtendHourly.
SetExtendHourly(b) ==
    /\ Idle
    /\ req' = [req EXCEPT !.ExtendHourly = b]
    /\ op' = "SetExtendHourly"
    /\ ret' = NoRet
    /\ UNCHANGED <<exch, dp>>

\* The caller assigns the exported field Exclude.
SetExclude(e) ==
    /\ Idle
    /\ req' = [req EXCEPT !.Exclude = e]
    /\ op' = "SetExclude"
    /\ ret' = NoRet
    /\ UNCHANGED <<exch, dp>>

CallURL ==
    /\ Idle
    /\ ret' = [NoRet EXCEPT !.url = URL(req).url, !.err = URL(req).err]
    /\ op' = "URL"
    /\ UNCHANGED <<req, exch, dp>>

\* Get up to http.Get: the URL is rendered; Get returns at once when that fails,
\* and otherwise sends the request and blocks (op = "http.Get", ret.url = reqURL).
GetStart ==
    /\ Idle
    /\ IF ~URL(req).err.isNil
       THEN /\ ret' = [NoRet EXCEPT !.resp = Get(req, NoExchange)]
            /\ op' = "Get"
       ELSE /\ ret' = [NoRet EXCEPT !.url = URL(req).url]
            /\ op' = "http.Get"
    /\ exch' = NoExchange
    /\ UNCHANGED <<req, dp>>

\* Get from http.Get on: the exchange ends with outcome x and Get returns.
GetFinish(x) ==
    /\ op = "http.Get"
    /\ ret' = [NoRet EXCEPT !.resp = Get(req, x)]
    /\ exch' = [x EXCEPT !.url = ret.url]
    /\ op' = "Get"
    /\ UNCHANGED <<req, dp>>

\* The caller (or a decoded forecast) sets the bearing of the data point.
SetWindBearing(b) ==
    /\ Idle
    /\ dp' = [dp EXCEPT !.WindBearing = b]
    /\ op' = "SetWindBearing"
    /\ ret' = NoRet
    /\ UNCHANGED <<req, exch>>

CallWindDirection ==
    /\ Idle
    /\ ret' = [NoRet EXCEPT !.dir = WindDirection(dp)]
    /\ op' = "WindDirection"
    /\ UNCHANGED <<req, exch, dp>>

\* The request builder and URL().
Next ==
    \/ \E k \in Keys, la \in Lats, lo \in Lngs : NewRequest(k, la, lo)
    \/ \E b \in BaseURLs : WithBaseURL(b)
    \/ \E t \in Times : WithTime(t)
    \/ \E l \in Langs : WithLang(l)
    \/ \E u \in UnitsSet : WithUnits(u)
    \/ \E b \in BOOLEAN : SetExtendHourly(b)
    \/ \E e \in Excludes : SetExclude(e)
    \/ CallURL

Spec == Init /\ [][Next]_vars

\* Get, on requests that differ in the base URL.
NextGet ==
    \/ \E b \in {DefaultBaseURL, TestBaseURL, BadBaseURL} : WithBaseURL(b)
    \/ GetStart
    \/ \E x \in Exchanges : GetFinish(x)

SpecGet == Init /\ [][NextGet]_vars

\* WindDirection.
NextWind ==
    \/ \E b \in Bearings : SetWindBearing(b)
    \/ CallWindDirection

SpecWind == Init /\ [][NextWind]_vars

----------------------------------------------------------------------------
(* Reading a rendered URL back, for the properties below.                  *)

\* The character with hex digits a and b as its byte (the inverse of escapeChar).
HexValue(c) == (CHOOSE i \in 1..16 : HexDigits[i] = c) - 1
RECURSIVE Unescape(_)
\* url.QueryUnescape on a well-formed component.
Unescape(s) ==
    IF s = <<>> THEN <<>>
    ELSE IF s[1] = "%" THEN <<ASCII[16 * HexValue(s[2]) + HexValue(s[3]) - 31]>> \o Unescape(SubSeq(s, 4, Len(s)))
    ELSE IF s[1] = "+" THEN <<" ">> \o Unescape(Tail(s))
    ELSE <<s[1]>> \o Unescape(Tail(s))

\* The parameters of the query of a rendered URL, in the order they are written.
QueryParams(url) ==
    [i \in 1..Len(Split(CutAfter(url, "?"), "&")) |-> parsePair(Split(CutAfter(url, "?"), "&")[i])]

\* The /-separated segments of a rendered URL before its query.
PathSegments(url) == Split(CutBefore(url, "?"), "/")
\* The ,-separated parts of the last segment, and the segment before it.
LastSegmentParts(url) == Split(PathSegments(url)[Len(PathSegments(url))], ",")
KeySegment(url) == PathSegments(url)[Len(PathSegments(url)) - 1]

\* A string is the decimal text of the integer n: an optional minus sign and
\* digits whose place values add up to n.
RECURSIVE Pow10(_)
Pow10(k) == IF k = 0 THEN 1 ELSE 10 * Pow10(k - 1)
RECURSIVE PlaceSum(_)
PlaceSum(ds) ==
    IF ds = <<>> THEN 0 ELSE (Byte(Head(ds)) - 48) * Pow10(Len(ds) - 1) + PlaceSum(Tail(ds))
AllDigits(ds) == ds /= <<>> /\ \A i \in 1..Len(ds) : IsDigit(ds[i])
IsIntegerText(s) ==
    \/ AllDigits(s)
    \/ s /= <<>> /\ s[1] \in {"-", "+"} /\ AllDigits(Tail(s))
IntegerValue(s) ==
    IF s[1] = "-" THEN -PlaceSum(Tail(s))
    ELSE IF s[1] = "+" THEN PlaceSum(Tail(s))
    ELSE PlaceSum(s)

\* The exchange of the last Get gave a response whose body was read in full.
Responded == exch.sent /\ exch.getErr.isNil /\ exch.readErr.isNil

\* The values the response of the last Get carries for X-Forecast-API-Calls.
CallsValues == SelectSeq(exch.Header, LAMBDA p : p.key = APICallsHeader)

----------------------------------------------------------------------------
(* Properties of Get (under SpecGet).                                      *)

\* C1: Get always returns a Response, and its Error is nil exactly when the URL
\* was rendered, the GET succeeded at the transport level, the body was read in
\* full, the status was below 400 and the body decoded as a Forecast.
C1_ErrorNilIffEveryStepSucceeded ==
    op = "Get" =>
        (ret.resp.Error.isNil <=>
            /\ Parse(req.baseURL).err.isNil
            /\ Responded
            /\ exch.StatusCode < 400
            /\ Unmarshal(exch.Body).err.isNil)

\* A Get that succeeded with the three-alert forecast, and so returned no error.
C1_Witness ==
    /\ op = "Get"
    /\ Responded /\ exch.StatusCode = 200 /\ exch.Body = BodyForecast
    /\ ret.resp.Error.isNil
    /\ Len(ret.resp.Forecast.Alerts) = 3

\* C2: a Response of Get with a non-nil Error has the zero Forecast, on every
\* failure path; a Forecast is only ever returned together with a nil Error.
C2_ErrorImpliesZeroForecast ==
    op = "Get" /\ ~ret.resp.Error.isNil => ret.resp.Forecast = ZeroForecast

\* A Get whose body failed to decode after some of its fields had decoded.
C2_Witness ==
    /\ op = "Get"
    /\ Responded /\ exch.StatusCode = 200 /\ exch.Body = BodyBadOffset
    /\ ~ret.resp.Error.isNil
    /\ Unmarshal(exch.Body).f /= ZeroForecast

\* C3: when the response read has a status of 400 or more, the Error's message is
\* the body text and the Forecast is zero, whatever the body (a valid forecast
\* included) and whatever the headers.
C3_ErrorStatusGivesBodyAsError ==
    op = "Get" /\ Responded /\ exch.StatusCode >= 400 =>
        /\ ~ret.resp.Error.isNil
        /\ ret.resp.Error.msg = exch.Body
        /\ ret.resp.Forecast = ZeroForecast

\* A Get answered 500 with a body that is a valid forecast and a call-count header.
C3_Witness ==
    /\ op = "Get"
    /\ Responded /\ exch.StatusCode = 500 /\ exch.Body = BodyForecast
    /\ CallsValues /= <<>>
    /\ ret.resp.Error.msg = BodyForecast

\* C4: for a response below 400 with a decodable body, Error is nil, and
\* APICallCount is the integer the X-Forecast-API-Calls header holds when it is
\* present and is the text of an integer, and 0 otherwise.
C4_CallCountFromHeader ==
    op = "Get" /\ Responded /\ exch.StatusCode < 400 /\ Unmarshal(exch.Body).err.isNil =>
        /\ ret.resp.Error.isNil
        /\ ret.resp.APICallCount =
              IF CallsValues /= <<>> /\ IsIntegerText(CallsValues[1].value)
              THEN IntegerValue(CallsValues[1].value)
              ELSE 0

\* A Get answered 200 whose header does not parse, and which still succeeded.
C4_Witness ==
    /\ op = "Get"
    /\ Responded /\ exch.StatusCode = 200 /\ exch.Body = BodyForecast
    /\ CallsValues /= <<>> /\ CallsValues[1].value = <<"x">>
    /\ ret.resp.Error.isNil /\ ret.resp.APICallCount = 0

----------------------------------------------------------------------------
(* Properties of URL() (under Spec).                                       *)

\* "https://api.darksky.net/forecast/foo/41.1234,-81.1234,12345?lang=es&units=si"
ExpectedURLWithTime ==
    <<"h", "t", "t", "p", "s", ":", "/", "/", "a", "p", "i", ".", "d", "a", "r", "k",
      "s", "k", "y", ".", "n", "e", "t", "/", "f", "o", "r", "e", "c", "a", "s", "t",
      "/", "f", "o", "o", "/", "4", "1", ".", "1", "2", "3", "4", ",", "-", "8", "1",
      ".", "1", "2", "3", "4", ",", "1", "2", "3", "4", "5", "?", "l", "a", "n", "g",
      "=", "e", "s", "&", "u", "n", "i", "t", "s", "=", "s", "i">>

\* "https://api.darksky.net/forecast/foo/41.1234,-81.1234?lang=es&units=si"
ExpectedURLSpanishSI ==
    <<"h", "t", "t", "p", "s", ":", "/", "/", "a", "p", "i", ".", "d", "a", "r", "k",
      "s", "k", "y", ".", "n", "e", "t", "/", "f", "o", "r", "e", "c", "a", "s", "t",
      "/", "f", "o", "o", "/", "4", "1", ".", "1", "2", "3", "4", ",", "-", "8", "1",
      ".", "1", "2", "3", "4", "?", "l", "a", "n", "g", "=", "e", "s", "&", "u", "n",
      "i", "t", "s", "=", "s", "i">>

\* C5: in the URL rendered for a request whose Time is the one MakeRequest gave it,
\* the segment after the key is {lat},{lng} and nothing more; for a request whose
\* Time is a positive t it is {lat},{lng},{t}.
C5_TimeSegmentFollowsTime ==
    op = "URL" /\ ret.err.isNil /\ (req.Time = UnsetTime \/ req.Time > 0) =>
        /\ KeySegment(ret.url) = escape(req.Key, "path")
        /\ LastSegmentParts(ret.url)[1] = FormatFloat(req.Lat)
        /\ LastSegmentParts(ret.url)[2] = FormatFloat(req.Lng)
        /\ IF req.Time = UnsetTime THEN Len(LastSegmentParts(ret.url)) = 2
           ELSE /\ Len(LastSegmentParts(ret.url)) = 3
                /\ IsIntegerText(LastSegmentParts(ret.url)[3])
                /\ IntegerValue(LastSegmentParts(ret.url)[3]) = req.Time

\* URL() after WithLang(Spanish), WithUnits(SI) and WithTime(12345), as the
\* repository's test expects it.
C5_Witness ==
    /\ op = "URL"
    /\ req.Time = 12345
    /\ ret.err.isNil /\ ret.url = ExpectedURLWithTime

\* C6: whenever Time is not the value MakeRequest gave it, the rendered path ends
\* in {lat},{lng},{t}.
C6_TimeSegmentForEverySetTime ==
    op = "URL" /\ ret.err.isNil /\ req.Time /= UnsetTime =>
        /\ Len(LastSegmentParts(ret.url)) = 3
        /\ IsIntegerText(LastSegmentParts(ret.url)[3])
        /\ IntegerValue(LastSegmentParts(ret.url)[3]) = req.Time

\* After URL() on a request with the default base URL, the query of the rendered
\* URL is exactly lang then units, holding the current Lang and Units.
C7_QueryHoldsCurrentLangAndUnits ==
    op = "URL" /\ req.baseURL = DefaultBaseURL =>
        /\ ret.err.isNil
        /\ Len(QueryParams(ret.url)) = 2
        /\ QueryParams(ret.url)[1].key = <<"l", "a", "n", "g">>
        /\ Unescape(QueryParams(ret.url)[1].value) = req.Lang
        /\ QueryParams(ret.url)[2].key = <<"u", "n", "i", "t", "s">>
        /\ Unescape(QueryParams(ret.url)[2].value) = req.Units

\* C7: the query property holds after every sequence of calls, and a URL() call
\* never changes the request.
C7_URLDeterminedByCurrentFields ==
    /\ []C7_QueryHoldsCurrentLangAndUnits
    /\ [][op' = "URL" => req' = req]_vars

\* URL() after the defaults were overridden by WithLang(Spanish) and WithUnits(SI),
\* as the repository's test expects it.
C7_Witness ==
    /\ op = "URL"
    /\ req.Lang = Spanish /\ req.Units = SI
    /\ ret.url = ExpectedURLSpanishSI

\* C10: URL() returns the same string and error for any two requests that differ
\* only in ExtendHourly and Exclude.
C10_ExtendHourlyAndExcludeUnused ==
    op = "URL" =>
        \A eh \in BOOLEAN, ex \in Excludes :
            URL([req EXCEPT !.ExtendHourly = eh, !.Exclude = ex])
                = [url |-> ret.url, err |-> ret.err]

\* URL() on a request with ExtendHourly set and a block excluded.
C10_Witness ==
    /\ op = "URL"
    /\ req.ExtendHourly /\ req.Exclude = <<"hourly">>
    /\ ret.err.isNil

\* C12: APICallCount is non-zero only when the URL was rendered, the response was
\* read in full, its status was below 400 and its X-Forecast-API-Calls header is
\* the text of a non-zero integer; a Response whose body failed to decode has a
\* non-nil Error together with the count parsed from the header; a Response for
\* a URL, transport, body-read or status failure has APICallCount 0.
C12_CallCountOnlyPastStatusCheck ==
    op = "Get" =>
        /\ ret.resp.APICallCount /= 0 =>
              /\ Parse(req.baseURL).err.isNil
              /\ Responded
              /\ exch.StatusCode < 400
              /\ CallsValues /= <<>>
              /\ IsIntegerText(CallsValues[1].value)
              /\ IntegerValue(CallsValues[1].value) /= 0
        /\ Responded /\ exch.StatusCode < 400 /\ ~Unmarshal(exch.Body).err.isNil =>
              /\ ~ret.resp.Error.isNil
              /\ ret.resp.APICallCount =
                    IF CallsValues /= <<>> /\ IsIntegerText(CallsValues[1].value)
                    THEN IntegerValue(CallsValues[1].value)
                    ELSE 0
        /\ ~Parse(req.baseURL).err.isNil \/ ~Responded \/ exch.StatusCode >= 400 =>
              ret.resp.APICallCount = 0

\* A Get answered 200 with a call count of 17 and a body that does not decode:
\* the Response holds both the error and the count.
C12_Witness ==
    /\ op = "Get"
    /\ Responded /\ exch.StatusCode = 200 /\ exch.Body = BodyBadOffset
    /\ CallsValues /= <<>> /\ CallsValues[1].value = <<"1", "7">>
    /\ ~ret.resp.Error.isNil
    /\ ret.resp.APICallCount = 17

----------------------------------------------------------------------------
(* Properties of WindDirection (under SpecWind).                           *)

\* C8: WindDirection of a bearing of 200 degrees is "SW", the example of the
\* method's doc comment.
C8_Bearing200IsSW ==
    op = "WindDirection" /\ dp.WindBearing = Degrees(200) => ret.dir = <<"S", "W">>

C11_LabelNeverEmpty ==
    op = "WindDirection" /\ ~dp.WindBearing.nan =>
        /\ ret.dir /= <<>>
        /\ ret.dir \in {<<"N">>, <<"N", "E">>, <<"E">>, <<"S", "E">>,
                        <<"S">>, <<"S", "W">>, <<"W">>, <<"N", "W">>}

\* WindDirection of the threshold 67, where the test for N has just stopped
\* holding and the one for E holds.
C11_Witness ==
    /\ op = "WindDirection"
    /\ dp.WindBearing = Degrees(67)
    /\ ret.dir = <<"E">>

====
